---- MODULE Spec2Model ----
(***************************************************************************)
(* Model of cuml.preprocessing.LabelEncoder (LabelEncoder.py).             *)
(*                                                                         *)
(* A string is a sequence of one-character strings, so that the decimal    *)
(* rendering of a code, the lexicographic order of the keys and the global *)
(* substring replacement of _trans_back are computed, not assumed.         *)
(* A cudf.Series is a record [container, dtype, data]; container "list"    *)
(* stands for an argument that is not a cudf.Series.                       *)
(* Optional attributes (None / a value) are sequences of length 0 / 1.     *)
(***************************************************************************)
EXTENDS Integers, Sequences, FiniteSets

VARIABLES _cats, _dtype, _fitted, pre, call, src

vars == <<_cats, _dtype, _fitted, pre, call, src>>

-----------------------------------------------------------------------------
(* Bounds of the explored inputs *)

MaxLen == 2
MaxCodes == 2
MaxCode == 1
NumLabels == 11

-----------------------------------------------------------------------------
(* Characters and strings *)

Digits == <<"0", "1", "2", "3", "4", "5", "6", "7", "8", "9">>

Letters == <<"a", "b", "c", "d", "e", "f", "g", "h", "i", "j", "k", "l", "m",
             "n", "o", "p", "q", "r", "s", "t", "u", "v", "w", "x", "y", "z">>

\* byte order of the characters used: '-' < digits < lower-case letters
Chars == <<"-">> \o Digits \o Letters

Range(s) == {s[i] : i \in DOMAIN s}

CharOrd(c) == CHOOSE i \in DOMAIN Chars : Chars[i] = c

IsDigit(c) == c \in Range(Digits)

RECURSIVE StrLess(_, _)
StrLess(s, t) ==
    IF t = <<>> THEN FALSE
    ELSE IF s = <<>> THEN TRUE
    ELSE IF s[1] = t[1] THEN StrLess(Tail(s), Tail(t))
    ELSE CharOrd(s[1]) < CharOrd(t[1])

\* str(n) of a Python / numpy integer
RECURSIVE str(_)
str(n) ==
    IF n < 0 THEN <<"-">> \o str(-n)
    ELSE IF n < 10 THEN <<Digits[n + 1]>>
    ELSE str(n \div 10) \o <<Digits[(n % 10) + 1]>>

IsIntString(s) == s # <<>> /\ \A i \in DOMAIN s : IsDigit(s[i])

RECURSIVE ParseInt(_)
ParseInt(s) ==
    IF s = <<>> THEN 0
    ELSE 10 * ParseInt(SubSeq(s, 1, Len(s) - 1)) + (CharOrd(s[Len(s)]) - 2)

\* one string of nvstrings.replace(pat, repl): every non-overlapping
\* occurrence of pat, left to right, becomes repl
RECURSIVE replace1(_, _, _)
replace1(s, pat, repl) ==
    IF Len(s) < Len(pat) THEN s
    ELSE IF SubSeq(s, 1, Len(pat)) = pat
         THEN repl \o replace1(SubSeq(s, Len(pat) + 1, Len(s)), pat, repl)
         ELSE <<s[1]>> \o replace1(Tail(s), pat, repl)

replace(strs, pat, repl) == [i \in DOMAIN strs |-> replace1(strs[i], pat, repl)]

-----------------------------------------------------------------------------
(* cudf.Series *)

Series(dt, d) == [container |-> "Series", dtype |-> dt, data |-> d]

NotASeries == [container |-> "list", dtype |-> "None", data |-> <<>>]

astype_str(y) ==
    Series("object", [i \in DOMAIN y.data |-> str(y.data[i])])

_enforce_str(y) ==
    IF y.dtype # "object" THEN astype_str(y) ELSE y

\* cudf.Series(nvstrings, dtype=orig_dtype): the strings read in orig_dtype
CanCast(strs, dt) ==
    dt = "object" \/ \A i \in DOMAIN strs : IsIntString(strs[i])

CastSeries(strs, dt) ==
    IF dt = "object" THEN Series(dt, strs)
    ELSE Series(dt, [i \in DOMAIN strs |-> ParseInt(strs[i])])

-----------------------------------------------------------------------------
(* nvcategory *)

RECURSIVE SortAsc(_)
SortAsc(S) ==
    IF S = {} THEN <<>>
    ELSE LET m == CHOOSE x \in S : \A z \in S \ {x} : StrLess(x, z)
         IN  <<m>> \o SortAsc(S \ {m})

IndexOf(keys, k) == CHOOSE i \in DOMAIN keys : keys[i] = k

\* nvcategory.from_strings: sorted unique keys, one 0-based value per string
from_strings(strs) ==
    LET ks == SortAsc(Range(strs))
    IN  [keys |-> ks,
         values |-> [i \in DOMAIN strs |-> IndexOf(ks, strs[i]) - 1]]

\* set_keys that keeps each string's value under its own keys
set_keys_no_remap(cat, newkeys) ==
    [keys |-> SortAsc(Range(newkeys)), values |-> cat.values]

\* nvcategory.set_keys: the same strings against another key set, -1 if absent
set_keys(cat, newkeys) ==
    LET ks == SortAsc(Range(newkeys))
    IN  [keys |-> ks,
         values |-> [i \in DOMAIN cat.values |->
                        LET k == cat.keys[cat.values[i] + 1]
                        IN  IF k \in Range(ks) THEN IndexOf(ks, k) - 1 ELSE -1]]

-----------------------------------------------------------------------------
(* Results of a call *)

Ok(v) == [kind |-> "ok", value |-> v]

Raise(e) == [kind |-> e, value |-> <<>>]

Self(c, d, f) == [_cats |-> c, _dtype |-> d, _fitted |-> f]

Outcome(s, r) == [self |-> s, ret |-> r]

-----------------------------------------------------------------------------
(* _trans_back *)

\* keys[ord_int] on a Python list: a negative index counts from the end
InRange(list, i) == -Len(list) <= i /\ i < Len(list)

GetItem(list, i) == IF i >= 0 THEN list[i + 1] ELSE list[Len(list) + i + 1]

\* sort_values(ascending=True)
RECURSIVE sort_values_asc(_)
sort_values_asc(S) ==
    IF S = {} THEN <<>>
    ELSE LET m == CHOOSE x \in S : \A z \in S : x <= z
         IN  <<m>> \o sort_values_asc(S \ {m})

RECURSIVE sort_values_desc(_)
sort_values_desc(S) ==
    IF S = {} THEN <<>>
    ELSE LET m == CHOOSE x \in S : \A z \in S : z <= x
         IN  <<m>> \o sort_values_desc(S \ {m})

\* the loop with the range check reduced to ord_int >= len(keys)
RECURSIVE trans_loop_upper_only(_, _, _)
trans_loop_upper_only(ords, keys, reverted) ==
    IF ords = <<>> THEN Ok(reverted)
    ELSE LET ord_int == Head(ords)
             ord_str == str(ord_int)
         IN  IF ord_int >= Len(keys)
             THEN Raise("ValueError")
             ELSE IF ~InRange(keys, ord_int)
             THEN Raise("IndexError")
             ELSE trans_loop_upper_only(Tail(ords), keys,
                      replace(reverted, ord_str, GetItem(keys, ord_int)))

\* the for loop of _trans_back over the codes still to process
RECURSIVE trans_loop(_, _, _)
trans_loop(ords, keys, reverted) ==
    IF ords = <<>> THEN Ok(reverted)
    ELSE LET ord_int == Head(ords)
             ord_str == str(ord_int)
         IN  IF ord_int < 0 \/ ord_int >= Len(keys)
             THEN Raise("ValueError")
             ELSE IF ~InRange(keys, ord_int)
             THEN Raise("IndexError")
             ELSE trans_loop(Tail(ords), keys,
                             replace(reverted, ord_str, GetItem(keys, ord_int)))

_trans_back(ser, categories, orig_dtype) ==
    LET sorted_ord_label == sort_values_desc(Range(ser.data))
        keys == categories.keys
        reverted == [i \in DOMAIN ser.data |-> str(ser.data[i])]
        r == trans_loop(sorted_ord_label, keys, reverted)
    IN  IF r.kind # "ok" THEN r
        ELSE IF CanCast(r.value, orig_dtype)
             THEN Ok(CastSeries(r.value, orig_dtype).data)
             ELSE Raise("CastError")

-----------------------------------------------------------------------------
(* LabelEncoder methods: the encoder after the call and what the call      *)
(* returns or raises.  fail names the library call that raises inside the  *)
(* method ("none": no library call raises).  The attributes assigned      *)
(* before the raising call keep their new values, as in the source.        *)
(* "-1 in encoded" is membership among the values of encoded.              *)

_check_is_fitted(self) == self._fitted

fit(self, y, fail) ==
    IF y.container # "Series"
    THEN Outcome(self, Raise("AttributeError"))
    ELSE LET s1 == Self(self._cats, y.dtype, self._fitted)
         IN  IF fail = "astype" /\ y.dtype # "object"
             THEN Outcome(s1, Raise("LibraryError"))
             ELSE IF fail = "from_strings"
             THEN Outcome(s1, Raise("LibraryError"))
             ELSE Outcome(Self(<<from_strings(_enforce_str(y).data)>>,
                               y.dtype, TRUE),
                          Ok(<<>>))

\* transform without the test for -1
transform_unchecked(self, y) ==
    IF ~_check_is_fitted(self)
    THEN Outcome(self, Raise("RuntimeError"))
    ELSE IF y.container # "Series"
    THEN Outcome(self, Raise("AttributeError"))
    ELSE Outcome(self, Ok(set_keys(from_strings(_enforce_str(y).data),
                                   self._cats[1].keys).values))

\* transform that keeps the category built from its input
transform_refits(self, y) ==
    IF ~_check_is_fitted(self)
    THEN Outcome(self, Raise("RuntimeError"))
    ELSE IF y.container # "Series"
    THEN Outcome(self, Raise("AttributeError"))
    ELSE LET cat == from_strings(_enforce_str(y).data)
             encoded == set_keys(cat, self._cats[1].keys).values
             s1 == Self(<<cat>>, self._dtype, self._fitted)
         IN  IF -1 \in Range(encoded)
             THEN Outcome(s1, Raise("KeyError"))
             ELSE Outcome(s1, Ok(encoded))

transform(self, y) ==
    IF ~_check_is_fitted(self)
    THEN Outcome(self, Raise("RuntimeError"))
    ELSE IF y.container # "Series"
    THEN Outcome(self, Raise("AttributeError"))
    ELSE LET encoded == set_keys(from_strings(_enforce_str(y).data),
                                 self._cats[1].keys).values
         IN  IF -1 \in Range(encoded)
             THEN Outcome(self, Raise("KeyError"))
             ELSE Outcome(self, Ok(encoded))

\* the distinct strings in order of first occurrence
RECURSIVE FirstSeen(_)
FirstSeen(strs) ==
    IF strs = <<>> THEN <<>>
    ELSE LET init == FirstSeen(SubSeq(strs, 1, Len(strs) - 1))
             last == strs[Len(strs)]
         IN  IF last \in Range(init) THEN init ELSE Append(init, last)

\* fit_transform returning codes numbered by first occurrence
fit_transform_first_seen(self, y, fail) ==
    IF y.container # "Series"
    THEN Outcome(self, Raise("AttributeError"))
    ELSE LET strs == _enforce_str(y).data
             seen == FirstSeen(strs)
         IN  Outcome(Self(<<from_strings(strs)>>, y.dtype, TRUE),
                     Ok([i \in DOMAIN strs |-> IndexOf(seen, strs[i]) - 1]))

\* fit_transform that does not record the dtype of its input
fit_transform_keeps_dtype(self, y, fail) ==
    IF y.container # "Series"
    THEN Outcome(self, Raise("AttributeError"))
    ELSE LET cats == from_strings(_enforce_str(y).data)
         IN  Outcome(Self(<<cats>>, self._dtype, TRUE), Ok(cats.values))

fit_transform(self, y, fail) ==
    IF y.container # "Series"
    THEN Outcome(self, Raise("AttributeError"))
    ELSE LET s1 == Self(self._cats, y.dtype, self._fitted)
             cats == from_strings(_enforce_str(y).data)
             s2 == Self(<<cats>>, y.dtype, TRUE)
         IN  IF fail = "astype" /\ y.dtype # "object"
             THEN Outcome(s1, Raise("LibraryError"))
             ELSE IF fail = "from_strings"
             THEN Outcome(s1, Raise("LibraryError"))
             ELSE IF fail \in {"device_array", "values"}
             THEN Outcome(s2, Raise("LibraryError"))
             ELSE Outcome(s2, Ok(cats.values))

\* inverse_transform testing the argument's type before the fitted flag
inverse_transform_type_first(self, y) ==
    IF y.container # "Series"
    THEN Outcome(self, Raise("TypeError"))
    ELSE IF ~_check_is_fitted(self)
    THEN Outcome(self, Raise("RuntimeError"))
    ELSE Outcome(self, _trans_back(y, self._cats[1], self._dtype))

inverse_transform(self, y) ==
    IF ~_check_is_fitted(self)
    THEN Outcome(self, Raise("RuntimeError"))
    ELSE IF y.container = "Series"
    THEN Outcome(self, _trans_back(y, self._cats[1], self._dtype))
    ELSE Outcome(self, Raise("TypeError"))

-----------------------------------------------------------------------------
(* Inputs *)

RECURSIVE SeqsUpTo(_, _)
SeqsUpTo(S, n) ==
    IF n = 0 THEN {<<>>}
    ELSE LET shorter == SeqsUpTo(S, n - 1)
         IN  shorter \cup {Append(s, x) : s \in shorter, x \in S}

StrLabels == {<<"a">>, <<"x", "0">>}

IntLabels == {10, 20}

\* the inputs of the class docstring, and integer-valued labels
ExampleStrInputs ==
    {Series("object", <<<<"a">>, <<"b">>, <<"c">>, <<"d">>>>),
     Series("object", <<<<"c">>, <<"a">>>>),
     Series("object", <<<<"z">>>>)}

ExampleIntInputs == {Series("int64", <<10, 20, 10, 30>>)}

StrInputs ==
    {Series("object", d) : d \in SeqsUpTo(StrLabels, MaxLen)}
        \cup ExampleStrInputs

IntInputs ==
    {Series("int64", d) : d \in SeqsUpTo(IntLabels, MaxLen)}
        \cup ExampleIntInputs

CodeInputs == {Series("int32", d) : d \in SeqsUpTo(-1 .. MaxCode, MaxCodes)}

\* the labels "a", "b", ... of the digit-collision scenario
Label(i) == <<Letters[i]>>

ManyLabelInputs ==
    {Series("object", [i \in 1 .. n |-> Label(i)]) : n \in 11 .. NumLabels}
        \cup {Series("object", [i \in 1 .. n |-> Label(n + 1 - i)]) :
                  n \in 11 .. NumLabels}

CollisionCodes == {0, 1, 10, NumLabels - 1}

ManyCodeInputs ==
    {Series("int32", d) : d \in SeqsUpTo(CollisionCodes, MaxCodes + 1)}

FitFailures == {"none", "astype", "from_strings"}

FitTransformFailures == FitFailures \cup {"device_array", "values"}

\* the library calls the method reaches for y: none on an argument without
\* a dtype, no astype on a Series that holds strings already
Applicable(failures, y) ==
    IF y.container # "Series" THEN {"none"}
    ELSE IF y.dtype = "object" THEN failures \ {"astype"}
    ELSE failures

-----------------------------------------------------------------------------
(* State machine *)

Current == Self(_cats, _dtype, _fitted)

NoSource == [from |-> "none", labels |-> <<>>]

\* __init__
Init ==
    /\ _cats = <<>>
    /\ _dtype = "None"
    /\ _fitted = FALSE
    /\ pre = Self(<<>>, "None", FALSE)
    /\ call = [op |-> "__init__", arg |-> NotASeries, fail |-> "none",
               ret |-> Ok(<<>>)]
    /\ src = NoSource

Commit(o, name, y, fail) ==
    /\ _cats' = o.self._cats
    /\ _dtype' = o.self._dtype
    /\ _fitted' = o.self._fitted
    /\ pre' = Current
    /\ call' = [op |-> name, arg |-> y, fail |-> fail, ret |-> o.ret]

Fit(y) ==
    \E fail \in Applicable(FitFailures, y) :
        /\ Commit(fit(Current, y, fail), "fit", y, fail)
        /\ src' = NoSource

Transform(y) ==
    /\ Commit(transform(Current, y), "transform", y, "none")
    /\ src' = NoSource

FitTransform(y) ==
    \E fail \in Applicable(FitTransformFailures, y) :
        /\ Commit(fit_transform(Current, y, fail), "fit_transform", y, fail)
        /\ src' = NoSource

InverseTransform(y) ==
    /\ Commit(inverse_transform(Current, y), "inverse_transform", y, "none")
    /\ src' = NoSource

\* inverse_transform called on the codes the previous call returned
InverseTransformReturned ==
    /\ call.op \in {"fit_transform", "transform"}
    /\ call.ret.kind = "ok"
    /\ Commit(inverse_transform(Current, Series("int32", call.ret.value)),
              "inverse_transform", Series("int32", call.ret.value), "none")
    /\ src' = [from |-> call.op, labels |-> call.arg.data]

FitStep ==
    \/ \E y \in StrInputs : Fit(y)
    \/ \E y \in IntInputs : Fit(y)
    \/ Fit(NotASeries)

TransformStep ==
    \/ \E y \in StrInputs : Transform(y)
    \/ \E y \in IntInputs : Transform(y)
    \/ Transform(NotASeries)

FitTransformStep ==
    \/ \E y \in StrInputs : FitTransform(y)
    \/ \E y \in IntInputs : FitTransform(y)
    \/ FitTransform(NotASeries)

InverseTransformStep ==
    \/ \E y \in CodeInputs : InverseTransform(y)
    \/ InverseTransform(NotASeries)
    \/ InverseTransformReturned

Next ==
    \/ FitStep
    \/ TransformStep
    \/ FitTransformStep
    \/ InverseTransformStep

Spec == Init /\ [][Next]_vars

\* the digit-collision scenario: vocabularies of at least 11 labels
DigitFitStep == \E y \in ManyLabelInputs : Fit(y)

DigitTransformStep == \E y \in ManyLabelInputs : Transform(y)

DigitFitTransformStep == \E y \in ManyLabelInputs : FitTransform(y)

DigitInverseTransformStep ==
    \/ \E y \in ManyCodeInputs : InverseTransform(y)
    \/ InverseTransformReturned

NextDigit ==
    \/ DigitFitStep
    \/ DigitTransformStep
    \/ DigitFitTransformStep
    \/ DigitInverseTransformStep

SpecDigit == Init /\ [][NextDigit]_vars

-----------------------------------------------------------------------------
(* Vocabulary of the claims.  pre is the encoder before the last call,     *)
(* call the last call and Current the encoder after it.                    *)

DigitFree(s) == \A i \in DOMAIN s : ~IsDigit(s[i])

IsProperPrefix(a, b) == Len(a) < Len(b) /\ SubSeq(b, 1, Len(a)) = a

Fresh == Self(<<>>, "None", FALSE)

PreKeys == pre._cats[1].keys

ArgStrings == _enforce_str(call.arg).data

IsSeriesArg == call.arg.container = "Series"

ValidCode(c) == 0 <= c /\ c < Len(PreKeys)

NoDuplicates(s) == \A i, j \in DOMAIN s : s[i] = s[j] => i = j

\* the last call was inverse_transform on the codes that fit_transform
\* had just returned for src.labels
RoundTripCase ==
    /\ call.op = "inverse_transform"
    /\ src.from = "fit_transform"

NonNumericLabels(L) ==
    /\ \A i \in DOMAIN L : ~IsIntString(L[i])
    /\ \A i, j \in DOMAIN L : ~IsProperPrefix(L[i], L[j])

-----------------------------------------------------------------------------
(* C1 *)

\* C1 as stated: for string labels that are not numeric-looking and of which
\* none is a proper prefix of another (digits inside a label allowed),
\* inverse_transform(fit_transform(L)) equals L element by element.
C1_RoundTripAsStated ==
    (RoundTripCase /\ pre._dtype = "object" /\ NonNumericLabels(src.labels))
        => (call.ret.kind = "ok" /\ call.ret.value = src.labels)

\* C1 amended: for string labels that contain no digit character,
\* inverse_transform(fit_transform(L)) equals L element by element.
C1_RoundTripDigitFree ==
    (/\ RoundTripCase
     /\ pre._dtype = "object"
     /\ \A i \in DOMAIN src.labels : DigitFree(src.labels[i]))
        => (call.ret.kind = "ok" /\ call.ret.value = src.labels)

C1_Witness ==
    /\ RoundTripCase
    /\ pre._dtype = "object"
    /\ src.labels = << <<"c">>, <<"a">> >>
    /\ call.arg.data = <<1, 0>>
    /\ call.ret.value = src.labels

-----------------------------------------------------------------------------
(* C2 *)

\* C2: on an encoder fitted on at least 11 distinct digit-free string labels,
\* inverse_transform of any sequence of valid codes returns, at each
\* position, the vocabulary key whose code stands at that position.
C2_DigitCollision ==
    (/\ call.op = "inverse_transform"
     /\ IsSeriesArg
     /\ pre._fitted
     /\ pre._dtype = "object"
     /\ Len(PreKeys) >= 11
     /\ \A k \in DOMAIN PreKeys : DigitFree(PreKeys[k])
     /\ \A i \in DOMAIN call.arg.data : ValidCode(call.arg.data[i]))
        => (/\ call.ret.kind = "ok"
            /\ Len(call.ret.value) = Len(call.arg.data)
            /\ \A i \in DOMAIN call.arg.data :
                   call.ret.value[i] = PreKeys[call.arg.data[i] + 1])

C2_Witness ==
    /\ call.op = "inverse_transform"
    /\ pre._fitted
    /\ pre._dtype = "object"
    /\ Len(PreKeys) >= 11
    /\ call.arg.data = <<10, 1, 0>>
    /\ call.ret.kind = "ok"
    /\ call.ret.value = << <<"k">>, <<"b">>, <<"a">> >>

-----------------------------------------------------------------------------
(* C3 *)

\* C3: for integer-valued labels, inverse_transform of the codes that
\* fit_transform returned yields the original labels, position by position,
\* as integers.
C3_DtypePreservation ==
    (RoundTripCase /\ pre._dtype = "int64")
        => (call.ret.kind = "ok" /\ call.ret.value = src.labels)

-----------------------------------------------------------------------------
(* C4 *)

\* C4: on a fitted encoder, transform of an input with at least one value
\* outside the vocabulary raises KeyError (the unseen-label error), and a
\* result that transform returns never contains -1.
C4_UnseenDetection ==
    /\ (/\ call.op = "transform"
        /\ IsSeriesArg
        /\ pre._fitted
        /\ \E i \in DOMAIN ArgStrings : ArgStrings[i] \notin Range(PreKeys))
           => (call.ret.kind = "KeyError" /\ call.ret.value = <<>>)
    /\ (call.op = "transform" /\ call.ret.kind = "ok")
           => -1 \notin Range(call.ret.value)

C4_Witness ==
    /\ call.op = "transform"
    /\ IsSeriesArg
    /\ pre._fitted
    /\ Len(ArgStrings) = 2
    /\ ArgStrings[1] \in Range(PreKeys)
    /\ ArgStrings[2] \notin Range(PreKeys)
    /\ call.ret.kind = "KeyError"

-----------------------------------------------------------------------------
(* C5 *)

\* C5: on an encoder that is not fitted, transform and inverse_transform
\* raise RuntimeError (the not-fitted error) whatever the argument is, and
\* return nothing.
C5_NotFittedGuard ==
    (call.op \in {"transform", "inverse_transform"} /\ ~pre._fitted)
        => (/\ call.ret.kind = "RuntimeError"
            /\ call.ret.value = <<>>
            /\ Current = pre)

C5_Witness ==
    /\ call.op = "inverse_transform"
    /\ ~IsSeriesArg
    /\ pre = Fresh
    /\ call.ret.kind = "RuntimeError"

-----------------------------------------------------------------------------
(* C6 *)

\* C6: on a fitted encoder, inverse_transform of codes of which at least one
\* is < 0 or >= the vocabulary size raises ValueError.
C6_CodeRange ==
    (/\ call.op = "inverse_transform"
     /\ IsSeriesArg
     /\ pre._fitted
     /\ \E i \in DOMAIN call.arg.data : ~ValidCode(call.arg.data[i]))
        => call.ret.kind = "ValueError"

C6_Witness ==
    /\ call.op = "inverse_transform"
    /\ IsSeriesArg
    /\ pre._fitted
    /\ Len(PreKeys) = 2
    /\ call.arg.data = <<1, -1>>
    /\ call.ret.kind = "ValueError"

-----------------------------------------------------------------------------
(* C7 *)

\* C7: a fit_transform(y) in which no library call raises leaves the encoder
\* as fit(y) followed by transform(y) leaves it and returns what that
\* transform returns: one code per element, never the unseen-label error.
C7_FusedEquivalence ==
    (call.op = "fit_transform" /\ call.fail = "none")
        => LET a == fit(pre, call.arg, "none")
           IN  IF a.ret.kind # "ok"
               THEN Current = a.self /\ call.ret = a.ret
               ELSE LET b == transform(a.self, call.arg)
                    IN  /\ Current = b.self
                        /\ call.ret = b.ret
                        /\ call.ret.kind = "ok"
                        /\ Len(call.ret.value) = Len(call.arg.data)

C7_Witness ==
    /\ call.op = "fit_transform"
    /\ call.fail = "none"
    /\ pre._fitted
    /\ pre._dtype = "int64"
    /\ call.arg.dtype = "object"
    /\ call.ret.kind = "ok"
    /\ call.ret.value = <<1, 0>>

-----------------------------------------------------------------------------
(* C8 *)

\* C8: a fit or fit_transform call that fails leaves the vocabulary, the
\* original dtype and the fitted flag as they were before the call.
C8_FailureAtomicity ==
    (call.op \in {"fit", "fit_transform"} /\ call.ret.kind # "ok")
        => Current = pre

-----------------------------------------------------------------------------
(* C9 *)

\* C9: on a fitted encoder, transform of an input whose values all belong to
\* the vocabulary returns one code per element, in input order, the i-th
\* code being the position of the i-th value in the vocabulary.
C9_TransformResult ==
    (/\ call.op = "transform"
     /\ IsSeriesArg
     /\ pre._fitted
     /\ \A i \in DOMAIN ArgStrings : ArgStrings[i] \in Range(PreKeys))
        => (/\ call.ret.kind = "ok"
            /\ Len(call.ret.value) = Len(call.arg.data)
            /\ \A i \in DOMAIN ArgStrings :
                   /\ ValidCode(call.ret.value[i])
                   /\ PreKeys[call.ret.value[i] + 1] = ArgStrings[i])

C9_Witness ==
    /\ call.op = "transform"
    /\ pre._fitted
    /\ PreKeys = << <<"a">>, <<"b">>, <<"c">>, <<"d">> >>
    /\ call.arg.dtype = "object"
    /\ call.arg.data = << <<"c">>, <<"a">> >>
    /\ call.ret = Ok(<<2, 0>>)

-----------------------------------------------------------------------------
(* C10 *)

\* C10: transform and inverse_transform, succeeding or failing, leave the
\* encoder as it was; a fitted encoder stays fitted and its keys are unique;
\* the vocabulary changes only in fit or fit_transform, and then to exactly
\* the distinct values of that call's input.
C10_VocabularyStability ==
    /\ call.op \in {"transform", "inverse_transform"} => Current = pre
    /\ pre._fitted => _fitted
    /\ _fitted => NoDuplicates(_cats[1].keys)
    /\ _cats # pre._cats
           => (/\ call.op \in {"fit", "fit_transform"}
               /\ IsSeriesArg
               /\ Range(_cats[1].keys) = Range(ArgStrings))

C10_Witness ==
    /\ call.op = "transform"
    /\ IsSeriesArg
    /\ pre._fitted
    /\ call.ret.kind = "ok"
    /\ call.arg.data # <<>>
    /\ Range(ArgStrings) # Range(PreKeys)
    /\ Current = pre

====
